---- MODULE Spec2Model ----
(***************************************************************************)
(* A model of dstats.py, a library of descriptive statistics over          *)
(* one-dimensional numeric samples built on numpy.                         *)
(*                                                                         *)
(* Numbers.  A float is modelled by an exact extended rational <<n, d>>    *)
(* in lowest terms with d >= 0: <<0, 0>> is nan, <<1, 0>> is +inf and      *)
(* <<-1, 0>> is -inf, so that numpy's division by zero (a warning, never   *)
(* an exception) yields what numpy yields.  Rounding is not modelled.  A   *)
(* value that went through np.sqrt is a surd <<a, b, t>> = a + b*sqrt(t),  *)
(* a and b rationals and t a square-free natural (t = 1 when b = 0).       *)
(*                                                                         *)
(* Memory.  A heap is a sequence of buffers; an ndarray or list object is  *)
(* a reference [kind, buf, off, len] into one buffer (a numpy slice is a   *)
(* view: same buffer, other offset).  The caller's sample is buffer 1.     *)
(***************************************************************************)
EXTENDS Integers, Sequences, FiniteSets, TLC

VARIABLES
    x,       \* the caller's sample (the contents of the caller's buffer)
    y,       \* the caller's second sample, for corr
    kind,    \* how the caller holds x: "list" or "ndarray"
    op,      \* the function called last
    result,  \* what it returned or raised
    trace    \* the functions of the module it called, in order

vars == <<x, y, kind, op, result, trace>>

\* ------------------------------------------------------------ bounds
MaxLen == 4
MaxVal == 2
MaxCorrLen == 3
MaxCorrVal == 2

\* ------------------------------------------------ extended rationals
Sgn(n) == IF n > 0 THEN 1 ELSE IF n < 0 THEN 0 - 1 ELSE 0

Abs(n) == IF n < 0 THEN 0 - n ELSE n

RECURSIVE GCD(_, _)
GCD(a, b) == IF b = 0 THEN a ELSE GCD(b, a % b)

Rat(n, d) ==
    IF d = 0 THEN <<Sgn(n), 0>>
    ELSE LET g == GCD(Abs(n), Abs(d))
             s == Sgn(d)
         IN  <<(s * n) \div g, (s * d) \div g>>

FromInt(n) == <<n, 1>>

NaN == <<0, 0>>

Zero == <<0, 1>>

Two == <<2, 1>>

IsNaN(a) == a = NaN

IsFinite(a) == a[2] # 0

RNeg(a) == <<0 - a[1], a[2]>>

RAdd(a, b) ==
    IF a[2] = 0 /\ b[2] = 0 THEN (IF a = b THEN a ELSE NaN)
    ELSE Rat(a[1] * b[2] + b[1] * a[2], a[2] * b[2])

RSub(a, b) == RAdd(a, RNeg(b))

RMul(a, b) == Rat(a[1] * b[1], a[2] * b[2])

RInv(a) == IF a[1] < 0 THEN <<0 - a[2], 0 - a[1]>> ELSE <<a[2], a[1]>>

RDiv(a, b) == RMul(a, RInv(b))

RLt(a, b) ==
    /\ ~IsNaN(a)
    /\ ~IsNaN(b)
    /\ IF a[2] = 0 /\ b[2] = 0 THEN a[1] < b[1]
       ELSE a[1] * b[2] < b[1] * a[2]

RLe(a, b) ==
    /\ ~IsNaN(a)
    /\ ~IsNaN(b)
    /\ IF a[2] = 0 /\ b[2] = 0 THEN a[1] <= b[1]
       ELSE a[1] * b[2] <= b[1] * a[2]

RAbs(a) == <<Abs(a[1]), a[2]>>

\* ------------------------------------------------------------- surds
RECURSIVE SquarePart(_, _, _)
SquarePart(m, s, best) ==
    IF s * s > m THEN best
    ELSE SquarePart(m, s + 1, IF m % (s * s) = 0 THEN s ELSE best)

SNorm(a, b, t) ==
    IF IsNaN(a) \/ IsNaN(b) THEN <<NaN, Zero, 1>>
    ELSE IF b = Zero \/ t = 1 THEN <<RAdd(a, b), Zero, 1>>
    ELSE IF t = 0 THEN <<a, Zero, 1>>
    ELSE LET s == SquarePart(t, 1, 1)
             r == t \div (s * s)
         IN  IF r = 1 THEN <<RAdd(a, RMul(b, FromInt(s))), Zero, 1>>
             ELSE <<a, RMul(b, FromInt(s)), r>>

FromRat(a) == <<a, Zero, 1>>

SIsRat(s) == s[2] = Zero

SIsNaN(s) == IsNaN(s[1])

SIsZero(s) == s[1] = Zero /\ s[2] = Zero

\* np.sqrt of a rational: nan for nan and for negatives, inf for inf
np_sqrt(q) ==
    IF IsNaN(q) \/ q[1] < 0 THEN FromRat(NaN)
    ELSE IF q[2] = 0 THEN FromRat(q)
    ELSE SNorm(Zero, <<1, q[2]>>, q[1] * q[2])

\* the radicand shared by two operands (one of them may be rational)
STee(s1, s2) == IF SIsRat(s1) THEN s2[3] ELSE s1[3]

SAdd(s1, s2) == SNorm(RAdd(s1[1], s2[1]), RAdd(s1[2], s2[2]), STee(s1, s2))

SMul(s1, s2) ==
    IF SIsRat(s1) /\ SIsRat(s2) THEN FromRat(RMul(s1[1], s2[1]))
    ELSE IF SIsRat(s1) \/ SIsRat(s2) \/ s1[3] = s2[3]
    THEN LET t == STee(s1, s2)
         IN  SNorm(RAdd(RMul(s1[1], s2[1]),
                        RMul(RMul(s1[2], s2[2]), FromInt(t))),
                   RAdd(RMul(s1[1], s2[2]), RMul(s1[2], s2[1])),
                   t)
    ELSE \* two pure surds of different radicands
         SNorm(Zero, RMul(s1[2], s2[2]), s1[3] * s2[3])

SDiv(s1, s2) ==
    IF SIsRat(s2)
    THEN IF SIsRat(s1) THEN FromRat(RDiv(s1[1], s2[1]))
         ELSE SNorm(RDiv(s1[1], s2[1]), RDiv(s1[2], s2[1]), s1[3])
    ELSE LET t == s2[3]
             den == RSub(RMul(s2[1], s2[1]),
                         RMul(RMul(s2[2], s2[2]), FromInt(t)))
             conj == <<s2[1], RNeg(s2[2]), t>>
             num == SMul(s1, conj)
         IN  SNorm(RDiv(num[1], den), RDiv(num[2], den), t)

\* ------------------------------------------------------------ memory
\* The object handed to a function: kind is "list" or "ndarray".
Obj(k, b, o, n) == [kind |-> k, buf |-> b, off |-> o, len |-> n]

Load(h, r) == SubSeq(h[r.buf], r.off + 1, r.off + r.len)

Store(h, r, s) ==
    [h EXCEPT ![r.buf] = SubSeq(@, 1, r.off) \o s
                         \o SubSeq(@, r.off + r.len + 1, Len(@))]

\* a fresh ndarray holding s
Alloc(h, s) ==
    [heap |-> Append(h, s), ref |-> Obj("ndarray", Len(h) + 1, 0, Len(s))]

\* np.asarray: no copy when handed an ndarray
np_asarray(h, r) ==
    IF r.kind = "ndarray" THEN [heap |-> h, ref |-> r] ELSE Alloc(h, Load(h, r))

\* np.array(x): copy=True by default, for a list and for an ndarray alike
np_array(h, r) == Alloc(h, Load(h, r))

\* a basic slice arr[a:b] is a view of arr
Slice(r, a, b) == Obj("ndarray", r.buf, r.off + a, b - a)

\* numpy puts nan last when sorting
SortLe(a, b) == IsNaN(b) \/ RLe(a, b)

RECURSIVE Merge(_, _)
Merge(a, b) ==
    IF a = <<>> THEN b
    ELSE IF b = <<>> THEN a
    ELSE IF SortLe(a[1], b[1]) THEN <<a[1]>> \o Merge(Tail(a), b)
    ELSE <<b[1]>> \o Merge(a, Tail(b))

NoSort(s) == s

RECURSIVE MergeSort(_)
MergeSort(s) ==
    IF Len(s) <= 1 THEN s
    ELSE LET m == Len(s) \div 2
         IN  Merge(MergeSort(SubSeq(s, 1, m)), MergeSort(SubSeq(s, m + 1, Len(s))))

\* arr.sort(kind='mergesort'): in place, through the reference
ndarray_sort(h, r) == Store(h, r, MergeSort(Load(h, r)))

\* outcomes of a call: the heap it leaves, and what it returned or raised;
\* type tells a Python scalar (.item()) from a numpy scalar
Ret(h, v, ty) == [heap |-> h, status |-> "return", value |-> v, type |-> ty]

Raise(h, e) == [heap |-> h, status |-> "raise", value |-> e, type |-> "exception"]

\* ------------------------------------------------- central tendency
RECURSIVE np_sum(_)
np_sum(s) == IF s = <<>> THEN Zero ELSE RAdd(s[1], np_sum(Tail(s)))

\* a guard against the empty sample, which the source does not have
mean_guarded(s) == IF Len(s) = 0 THEN Zero ELSE RDiv(np_sum(s), FromInt(Len(s)))

\* np.sum(x) / x_arr.size: a numpy scalar division, nan for 0.0 / 0
mean(s) == RDiv(np_sum(s), FromInt(Len(s)))

\* ndarray.mean() / np.mean
ndarray_mean(s) == RDiv(np_sum(s), FromInt(Len(s)))

\* The statements of a function are chained through operators, each taking
\* what the statements before it left: the heap, the references, the values.
median_return(h2, s, length) ==
    IF length % 2 # 0 THEN Ret(h2, s[length \div 2 + 1], "python")
    ELSE IF length = 0 THEN Raise(h2, "IndexError")
    ELSE Ret(h2, RDiv(RAdd(s[length \div 2 + 1], s[length \div 2]), Two), "numpy")

median_sorted(h2, x_arr) == median_return(h2, Load(h2, x_arr), x_arr.len)

median_copied(c) == median_sorted(ndarray_sort(c.heap, c.ref), c.ref)

median(h, r) == median_copied(np_array(h, r))

RECURSIVE Dedup(_)
Dedup(s) ==
    IF Len(s) <= 1 THEN s
    ELSE IF s[1] = s[2] THEN Dedup(Tail(s))
    ELSE <<s[1]>> \o Dedup(Tail(s))

\* np.unique(arr, return_counts=True): the sorted distinct values, their counts
np_unique(s) == Dedup(MergeSort(s))

Count(s, v) == Cardinality({i \in DOMAIN s : s[i] = v})

np_max(c) == CHOOSE m \in {c[i] : i \in DOMAIN c} : \A i \in DOMAIN c : c[i] <= m

mode_first(s) ==
    LET unique == np_unique(s)
        counts == [i \in DOMAIN unique |-> Count(s, unique[i])]
    IN  IF s = <<>> THEN [status |-> "raise", value |-> "ValueError", type |-> "exception"]
        ELSE IF np_max(counts) = 1 THEN [status |-> "return", value |-> <<>>, type |-> "list"]
        ELSE LET i == CHOOSE j \in DOMAIN unique : counts[j] = np_max(counts)
             IN  [status |-> "return", value |-> <<unique[i]>>, type |-> "list"]

mode(s) ==
    LET unique == np_unique(s)
        counts == [i \in DOMAIN unique |-> Count(s, unique[i])]
    IN  IF s = <<>> THEN [status |-> "raise", value |-> "ValueError", type |-> "exception"]
        ELSE LET max_count == np_max(counts)
                 RECURSIVE Pick(_)
                 Pick(i) == IF i > Len(unique) THEN <<>>
                            ELSE IF counts[i] = max_count
                            THEN <<unique[i]>> \o Pick(i + 1)
                            ELSE Pick(i + 1)
             IN  IF max_count = 1 THEN [status |-> "return", value |-> <<>>, type |-> "list"]
                 ELSE [status |-> "return", value |-> Pick(1), type |-> "list"]

\* -------------------------------------------------------- dispersion
variance(s, ddof) ==
    LET m == ndarray_mean(s)
        arr == [i \in DOMAIN s |-> RMul(RSub(s[i], m), RSub(s[i], m))]
    IN  RDiv(np_sum(arr), FromInt(Len(s) - ddof))

std(s, ddof) == np_sqrt(variance(s, ddof))

fano_factor(s) == RDiv(variance(s, 1), mean(s))

\* rejects only the strictly negative mean
coefficient_of_variance_strict(s) ==
    LET m == mean(s)
    IN  IF RLt(m, Zero)
        THEN [status |-> "raise", value |-> "ValueError", type |-> "exception",
              trace |-> <<"mean">>]
        ELSE [status |-> "return", value |-> SDiv(std(s, 1), FromRat(m)),
              type |-> "numpy", trace |-> <<"mean", "std">>]

coefficient_of_variance(s) ==
    LET m == mean(s)
    IN  IF RLe(m, Zero)
        THEN [status |-> "raise", value |-> "ValueError", type |-> "exception",
              trace |-> <<"mean">>]
        ELSE [status |-> "return", value |-> SDiv(std(s, 1), FromRat(m)),
              type |-> "numpy", trace |-> <<"mean", "std">>]

\* keeps the median in the upper half when n is odd
UpperStart_keepMedian(size) == size \div 2

\* where the upper half starts: int(size/2) for even size, int(size/2+1) for odd
UpperStart(size) == IF size % 2 = 0 THEN size \div 2 ELSE size \div 2 + 1

iqr_return(q1, q2, q3) ==
    IF q3.status = "raise" THEN q3
    ELSE Ret(q3.heap,
             <<RSub(q3.value, q1.value), q1.value, q2.value, q3.value>>,
             "list")

iqr_q3(q1, q2, arr) ==
    IF q1.status = "raise" THEN q1
    ELSE iqr_return(q1, q2, median(q1.heap, Slice(arr, UpperStart(arr.len), arr.len)))

iqr_q1(q2, arr) ==
    IF q2.status = "raise" THEN q2
    ELSE iqr_q3(median(q2.heap, Slice(arr, 0, arr.len \div 2)), q2, arr)

iqr_sorted(h1, arr) == iqr_q1(median(h1, arr), arr)

iqr_copied(c) == iqr_sorted(ndarray_sort(c.heap, c.ref), c.ref)

iqr(h, r) == iqr_copied(np_array(h, r))

np_dot(a, b) == np_sum([i \in DOMAIN a |-> RMul(a[i], b[i])])

\* divides without looking at the denominator
corr_unguarded(xs, ys) ==
    LET mx == ndarray_mean(xs)
        my == ndarray_mean(ys)
        x_centered == [i \in DOMAIN xs |-> RSub(xs[i], mx)]
        y_centered == [i \in DOMAIN ys |-> RSub(ys[i], my)]
        ut == np_dot(x_centered, y_centered)
        lt == SMul(np_sqrt(np_dot(x_centered, x_centered)),
                   np_sqrt(np_dot(y_centered, y_centered)))
    IN  IF Len(xs) # Len(ys)
        THEN [status |-> "raise", value |-> "ValueError", type |-> "exception"]
        ELSE [status |-> "return", value |-> SDiv(FromRat(ut), lt), type |-> "python"]

corr(xs, ys) ==
    LET mx == ndarray_mean(xs)
        my == ndarray_mean(ys)
        x_centered == [i \in DOMAIN xs |-> RSub(xs[i], mx)]
        y_centered == [i \in DOMAIN ys |-> RSub(ys[i], my)]
        ut == np_dot(x_centered, y_centered)
        norm_x == np_sqrt(np_dot(x_centered, x_centered))
        norm_y == np_sqrt(np_dot(y_centered, y_centered))
        lt == SMul(norm_x, norm_y)
    IN  IF Len(xs) # Len(ys)  \* np.dot refuses operands of different lengths
        THEN [status |-> "raise", value |-> "ValueError", type |-> "exception"]
        ELSE IF SIsZero(lt)
        THEN [status |-> "return", value |-> FromRat(Zero), type |-> "python"]
        ELSE [status |-> "return", value |-> SDiv(FromRat(ut), lt), type |-> "python"]

mean_abs_diff(s, ddof) ==
    LET m == ndarray_mean(s)
        arr == [i \in DOMAIN s |-> RAbs(RSub(s[i], m))]
    IN  RDiv(np_sum(arr), FromInt(Len(s) - ddof))

MapSub(s, v) == [i \in DOMAIN s |-> RSub(s[i], v)]

MapAbs(s) == [i \in DOMAIN s |-> RAbs(s[i])]

AllocRet(a) == Ret(a.heap, a.ref, "ndarray")

\* x - median(x): a list minus a Python scalar is a TypeError; a list minus a
\* numpy scalar, and an ndarray minus either, is element-wise
Subtract(h, r, m) ==
    IF r.kind = "list" /\ m.type = "python" THEN Raise(h, "TypeError")
    ELSE AllocRet(Alloc(h, MapSub(Load(h, r), m.value)))

np_abs(h, r) == Alloc(h, MapAbs(Load(h, r)))

mad_median(ab) == median(ab.heap, ab.ref)

mad_abs(d) == IF d.status = "raise" THEN d ELSE mad_median(np_abs(d.heap, d.value))

mad_subtract(m, r) == IF m.status = "raise" THEN m ELSE mad_abs(Subtract(m.heap, r, m))

mad_copied(arr, r) == mad_subtract(median(arr.heap, r), r)

\* arr = np.array(x) is built and not used: the subtraction is on x itself
median_abs_dev(h, r) == mad_copied(np_array(h, r), r)

\* -------------------------------------------------------- transforms
\* ndarray.std(ddof=1)
ndarray_std(s, ddof) ==
    LET m == ndarray_mean(s)
        arr == [i \in DOMAIN s |-> RMul(RSub(s[i], m), RSub(s[i], m))]
    IN  np_sqrt(RDiv(np_sum(arr), FromInt(Len(s) - ddof)))

zscore(s) ==
    LET m == ndarray_mean(s)
        sd == ndarray_std(s, 1)
    IN  [i \in DOMAIN s |-> SDiv(FromRat(RSub(s[i], m)), sd)]

r_zscore(arr, mu, sigma) == [i \in DOMAIN arr |-> SMul(SAdd(arr[i], mu), sigma)]

C6745 == <<1349, 2000>>

MapScale(s, mad) == [i \in DOMAIN s |-> RDiv(RMul(C6745, s[i]), mad)]

mod_zscore_return(mad, d) ==
    IF d.status = "raise" THEN d
    ELSE Ret(d.heap, MapScale(Load(d.heap, d.value), mad.value), "ndarray")

mod_zscore_subtract(mad, m, r) ==
    IF m.status = "raise" THEN m ELSE mod_zscore_return(mad, Subtract(m.heap, r, m))

mod_zscore_mad(mad, r) ==
    IF mad.status = "raise" THEN mad
    ELSE mod_zscore_subtract(mad, median(mad.heap, r), r)

mod_zscore_copied(arr, r) == mod_zscore_mad(median_abs_dev(arr.heap, arr.ref), r)

mod_zscore(h, r) == mod_zscore_copied(np_array(h, r), r)

ndarray_min(s) == CHOOSE v \in {s[i] : i \in DOMAIN s} : \A i \in DOMAIN s : RLe(v, s[i])

ndarray_max(s) == CHOOSE v \in {s[i] : i \in DOMAIN s} : \A i \in DOMAIN s : RLe(s[i], v)

\* arr.min() of an empty array raises ValueError
unity_scale(s) ==
    IF s = <<>> THEN [status |-> "raise", value |-> "ValueError", type |-> "exception"]
    ELSE LET arr_min == ndarray_min(s)
             arr_max == ndarray_max(s)
         IN  [status |-> "return",
              value |-> [i \in DOMAIN s |->
                            RDiv(RSub(s[i], arr_min), RSub(arr_max, arr_min))],
              type |-> "ndarray"]

minmax_scale(s, n_min, n_max) ==
    LET unity_arr == unity_scale(s)
    IN  IF unity_arr.status = "raise" THEN unity_arr
        ELSE [status |-> "return",
              value |-> [i \in DOMAIN s |->
                            RAdd(n_min, RMul(RSub(n_max, n_min), unity_arr.value[i]))],
              type |-> "ndarray"]

\* ------------------------------------------------------------- shape
skew(s) ==
    LET m == ndarray_mean(s)
        arr == [i \in DOMAIN s |-> RMul(RMul(RSub(s[i], m), RSub(s[i], m)), RSub(s[i], m))]
        sd == std(s, 1)
    IN  SDiv(FromRat(np_sum(arr)), SMul(FromRat(FromInt(Len(s))), SMul(sd, SMul(sd, sd))))

kurtosis(s, fisher) ==
    LET m == ndarray_mean(s)
        sq == [i \in DOMAIN s |-> RMul(RSub(s[i], m), RSub(s[i], m))]
        arr == [i \in DOMAIN s |-> RMul(sq[i], sq[i])]
        sd == std(s, 1)
        sd2 == SMul(sd, sd)
        k == SDiv(FromRat(np_sum(arr)), SMul(FromRat(FromInt(Len(s))), SMul(sd2, sd2)))
    IN  IF fisher THEN SAdd(k, FromRat(FromInt(0 - 3))) ELSE k

moments(s) == <<FromRat(mean(s)), FromRat(variance(s, 1)), skew(s), kurtosis(s, TRUE)>>

\* ----------------------------------------------------------- the calls
Kinds == {"list", "ndarray"}

Vals == {FromInt(v) : v \in (0 - 1)..MaxVal}

Samples == UNION {[1..n -> Vals] : n \in 0..MaxLen}

CorrVals == {FromInt(v) : v \in 0..MaxCorrVal}

CorrSamples == UNION {[1..n -> CorrVals] : n \in 0..MaxCorrLen}

\* the documented example of section 8, iqr([1,2,3,4,5]), in every order
Example == <<FromInt(1), FromInt(2), FromInt(3), FromInt(4), FromInt(5)>>

Perms(s) == {[i \in DOMAIN s |-> s[p[i]]] : p \in Permutations(DOMAIN s)}

NoResult == [status |-> "none", value |-> <<>>, type |-> "none"]

\* the caller's object and the heap that holds it
Caller == Obj(kind, 1, 0, Len(x))

Heap0 == <<x>>

\* One call at a time: the library is synchronous and keeps no state, so the
\* caller is either between calls (op = "none") or holds a call's outcome.
\* The outcome of a call that works on the heap: the caller's buffer is what
\* the call leaves there.
HeapOutcome(name, r, tr) ==
    /\ x' = r.heap[1]
    /\ op' = name
    /\ result' = [status |-> r.status, value |-> r.value, type |-> r.type]
    /\ trace' = tr
    /\ UNCHANGED <<y, kind>>

\* the outcome of a call of a function that holds no in-place statement
Outcome(name, r, tr) ==
    /\ op' = name
    /\ result' = [status |-> r.status, value |-> r.value, type |-> r.type]
    /\ trace' = tr
    /\ UNCHANGED <<x, y, kind>>

Returned(v, ty) == [status |-> "return", value |-> v, type |-> ty]

Call_mean ==
    /\ op = "none"
    /\ Outcome("mean", Returned(mean(x), "numpy"), <<>>)

Call_median ==
    /\ op = "none"
    /\ HeapOutcome("median", median(Heap0, Caller), <<>>)

Call_mode ==
    /\ op = "none"
    /\ Outcome("mode", mode(x), <<>>)

Call_variance ==
    /\ op = "none"
    /\ \E ddof \in 0..1 :
           Outcome("variance", Returned(variance(x, ddof), "numpy"), <<>>)

Call_std ==
    /\ op = "none"
    /\ \E ddof \in 0..1 :
           Outcome("std", Returned(std(x, ddof), "numpy"), <<"variance">>)

Call_fano_factor ==
    /\ op = "none"
    /\ Outcome("fano_factor", Returned(fano_factor(x), "numpy"), <<"variance", "mean">>)

TraceOf(r) == r.trace

CovOutcome(r) == Outcome("coefficient_of_variance", r, TraceOf(r))

Call_coefficient_of_variance ==
    /\ op = "none"
    /\ CovOutcome(coefficient_of_variance(x))

Call_iqr ==
    /\ op = "none"
    /\ HeapOutcome("iqr", iqr(Heap0, Caller),
                   IF Len(x) = 0 THEN <<"median">>
                   ELSE IF Len(x) = 1 THEN <<"median", "median">>
                   ELSE <<"median", "median", "median">>)

Call_mean_abs_diff ==
    /\ op = "none"
    /\ \E ddof \in 0..1 :
           Outcome("mean_abs_diff", Returned(mean_abs_diff(x, ddof), "numpy"), <<>>)

MadOutcome(r) ==
    HeapOutcome("median_abs_dev", r,
                IF r.status = "raise" THEN <<"median">> ELSE <<"median", "median">>)

Call_median_abs_dev ==
    /\ op = "none"
    /\ MadOutcome(median_abs_dev(Heap0, Caller))

Call_skew ==
    /\ op = "none"
    /\ Outcome("skew", Returned(skew(x), "numpy"), <<"std">>)

Call_kurtosis ==
    /\ op = "none"
    /\ \E fisher \in BOOLEAN :
           Outcome("kurtosis", Returned(kurtosis(x, fisher), "numpy"), <<"std">>)

Call_moments ==
    /\ op = "none"
    /\ Outcome("moments", Returned(moments(x), "list"),
               <<"mean", "variance", "skew", "kurtosis">>)

Call_zscore ==
    /\ op = "none"
    /\ Outcome("zscore", Returned(zscore(x), "ndarray"), <<>>)

\* the caller turns the z-scores of x back, with the mean and the standard
\* deviation of x: r_zscore(zscore(x), mean(x), std(x))
Call_r_zscore ==
    /\ op = "none"
    /\ Outcome("r_zscore",
               Returned(r_zscore(zscore(x), FromRat(mean(x)), std(x, 1)), "ndarray"),
               <<>>)

Call_mod_zscore ==
    /\ op = "none"
    /\ HeapOutcome("mod_zscore", mod_zscore(Heap0, Caller),
                   IF Len(x) = 0 THEN <<"median_abs_dev">>
                   ELSE <<"median_abs_dev", "median">>)

Call_unity_scale ==
    /\ op = "none"
    /\ Outcome("unity_scale", unity_scale(x), <<>>)

Call_minmax_scale ==
    /\ op = "none"
    /\ \E b \in {<<FromInt(0), FromInt(1)>>, <<FromInt(0 - 1), FromInt(1)>>} :
           Outcome("minmax_scale", minmax_scale(x, b[1], b[2]), <<"unity_scale">>)

Call_corr ==
    /\ op = "none"
    /\ Outcome("corr", corr(x, y), <<>>)

\* the caller drops the outcome and is ready for the next call
Discard ==
    /\ op # "none"
    /\ op' = "none"
    /\ result' = NoResult
    /\ trace' = <<>>
    /\ UNCHANGED <<x, y, kind>>

\* ---------------------------------------------------- specifications
\* every function of one sample, on every sample within the bounds
Init ==
    /\ x \in Samples
    /\ y = <<>>
    /\ kind \in Kinds
    /\ op = "none"
    /\ result = NoResult
    /\ trace = <<>>

Next ==
    \/ Call_mean
    \/ Call_median
    \/ Call_mode
    \/ Call_variance
    \/ Call_std
    \/ Call_fano_factor
    \/ Call_coefficient_of_variance
    \/ Call_iqr
    \/ Call_mean_abs_diff
    \/ Call_median_abs_dev
    \/ Call_skew
    \/ Call_kurtosis
    \/ Call_moments
    \/ Call_zscore
    \/ Call_r_zscore
    \/ Call_mod_zscore
    \/ Call_unity_scale
    \/ Call_minmax_scale
    \/ Discard

Spec == Init /\ [][Next]_vars

\* corr, on every pair of samples within the bounds
InitCorr ==
    /\ x \in CorrSamples
    /\ y \in CorrSamples
    /\ kind \in Kinds
    /\ op = "none"
    /\ result = NoResult
    /\ trace = <<>>

NextCorr == Call_corr \/ Discard

SpecCorr == InitCorr /\ [][NextCorr]_vars

\* the quartiles of the documented example, given in every order
InitExample ==
    /\ x \in Perms(Example)
    /\ y = <<>>
    /\ kind \in Kinds
    /\ op = "none"
    /\ result = NoResult
    /\ trace = <<>>

NextExample == Call_iqr \/ Call_median \/ Discard

SpecExample == InitExample /\ [][NextExample]_vars

\* ------------------------------------------------------------ claims
\* What the claims speak of, stated without the code's sort: the k-th smallest
\* element by counting, the median of an ascending sequence, a constant sample.
OrderStat(s, k) ==
    CHOOSE v \in {s[i] : i \in DOMAIN s} :
        /\ Cardinality({i \in DOMAIN s : RLt(s[i], v)}) < k
        /\ k <= Cardinality({i \in DOMAIN s : RLe(s[i], v)})

SortedOf(s) == [k \in 1..Len(s) |-> OrderStat(s, k)]

MedianOfSorted(a) ==
    IF Len(a) % 2 = 1 THEN a[(Len(a) + 1) \div 2]
    ELSE RDiv(RAdd(a[Len(a) \div 2], a[Len(a) \div 2 + 1]), Two)

MedianOf(s) == MedianOfSorted(SortedOf(s))

IsConstant(s) == \A i \in DOMAIN s : s[i] = s[1]

Occurrences(s, v) == Cardinality({i \in DOMAIN s : s[i] = v})

MaxOccurrences(s) ==
    CHOOSE c \in {Occurrences(s, s[i]) : i \in DOMAIN s} :
        \A i \in DOMAIN s : Occurrences(s, s[i]) <= c

\* the sign of a surd that is rational or a pure multiple of a square root
SSgn(v) == IF SIsRat(v) THEN Sgn(v[1][1]) ELSE Sgn(v[2][1])

\* C1: for n >= 2, iqr returns [Q3 - Q1, Q1, Q2, Q3]: Q2 the median of the
\* sample, Q1 the median of the sorted elements at [0, n div 2), Q3 the median
\* of those at [n div 2, n) for even n and at [n div 2 + 1, n) for odd n.
C1_IqrQuartiles ==
    (op = "iqr" /\ Len(x) >= 2) =>
        LET n == Len(x)
            a == SortedOf(x)
            lower == SubSeq(a, 1, n \div 2)
            upper == IF n % 2 = 0 THEN SubSeq(a, n \div 2 + 1, n)
                     ELSE SubSeq(a, n \div 2 + 2, n)
            Q1 == MedianOfSorted(lower)
            Q2 == MedianOfSorted(a)
            Q3 == MedianOfSorted(upper)
        IN  /\ result.status = "return"
            /\ Len(result.value) = 4
            /\ result.value = <<RSub(Q3, Q1), Q1, Q2, Q3>>

\* an odd-length, unsorted sample of distinct upper elements went through iqr
C1_Witness ==
    /\ op = "iqr"
    /\ Len(x) = 3
    /\ x # SortedOf(x)
    /\ result.status = "return"
    /\ result.value[3] # result.value[4]

\* C2 as the spec states it: iqr([1,2,3,4,5]) = [2.0, 2.0, 3.0, 4.0]
C2_Original ==
    (op = "iqr" /\ SortedOf(x) = Example) =>
        /\ result.status = "return"
        /\ result.value = <<FromInt(2), FromInt(2), FromInt(3), FromInt(4)>>

\* C2 amended: iqr of the sample 1,2,3,4,5 is [3.0, 1.5, 3, 4.5]: the halves
\* are [1,2] and [4,5], whose medians are 1.5 and 4.5
C2_IqrExample ==
    (op = "iqr" /\ SortedOf(x) = Example) =>
        /\ result.status = "return"
        /\ result.value = <<FromInt(3), <<3, 2>>, FromInt(3), <<9, 2>>>>

C2_Witness == op = "iqr" /\ x = Example /\ result.status = "return"

\* C3: for a non-empty sample, mode returns the empty list when every value
\* occurs once, and otherwise exactly the values of maximal count, each once,
\* strictly ascending.
C3_Mode ==
    (op = "mode" /\ x # <<>>) =>
        LET v == result.value
            maxc == MaxOccurrences(x)
        IN  /\ result.status = "return"
            /\ IF maxc = 1 THEN v = <<>>
               ELSE /\ {v[i] : i \in DOMAIN v}
                         = {x[i] : i \in {j \in DOMAIN x : Occurrences(x, x[j]) = maxc}}
                    /\ \A i, j \in DOMAIN v : i < j => RLt(v[i], v[j])

\* two tied modes, given in descending order in the sample
C3_Witness ==
    /\ op = "mode"
    /\ Len(x) = 4
    /\ RLt(x[4], x[1])
    /\ Len(result.value) = 2

\* C4: the median of a non-empty sample is the middle element of the sorted
\* sample (odd n) or the mean of the two middle ones (even n), and every
\* permutation of the sample has the same median.
C4_MedianPermutation ==
    (op = "median" /\ x # <<>>) =>
        /\ result.status = "return"
        /\ result.value = MedianOf(x)
        /\ \A p \in Perms(x) :
               median(<<p>>, Obj(kind, 1, 0, Len(p))).value = result.value

\* an unsorted sample of even length whose median is not one of its elements
C4_Witness ==
    /\ op = "median"
    /\ Len(x) = 4
    /\ x # SortedOf(x)
    /\ result.value[2] = 2

\* C5: no call changes the caller's sample, whichever function is called and
\* whether the caller passes a list or an array.
C5_NoMutation == [][x' = x]_vars

\* iqr returned on an unsorted array of the caller, which is still unsorted
C5_Witness ==
    /\ op = "iqr"
    /\ kind = "ndarray"
    /\ result.status = "return"
    /\ x # SortedOf(x)

\* C6: coefficient_of_variance raises the domain error when the mean is <= 0,
\* before std is called, and returns std(x, ddof=1) / mean(x) when it is > 0.
C6_CovDomain ==
    (op = "coefficient_of_variance" /\ x # <<>>) =>
        IF RLe(RDiv(np_sum(x), FromInt(Len(x))), Zero)
        THEN /\ result.status = "raise"
             /\ result.value = "ValueError"
             /\ trace = <<"mean">>
        ELSE /\ result.status = "return"
             /\ result.value = SDiv(std(x, 1), FromRat(mean(x)))
             /\ trace = <<"mean", "std">>

\* a sample whose mean is exactly 0 was rejected
C6_Witness ==
    /\ op = "coefficient_of_variance"
    /\ Len(x) >= 2
    /\ np_sum(x) = Zero
    /\ result.status = "raise"

C8_RoundTrip ==
    (op = "r_zscore" /\ Len(x) >= 2 /\ ~IsConstant(x)) =>
        /\ result.status = "return"
        /\ result.value = [i \in DOMAIN x |-> FromRat(x[i])]

\* C9 as the spec states it: mean is sum / n for n >= 1 and fails with an
\* error for the empty sample
C9_Original ==
    (op = "mean") =>
        IF Len(x) >= 1
        THEN result.status = "return" /\ RMul(result.value, FromInt(Len(x))) = np_sum(x)
        ELSE result.status = "raise"

\* C9 amended: mean is sum / n for n >= 1; for the empty sample it raises
\* nothing and returns nan (numpy's 0.0 / 0)
C9_MeanOrNaN ==
    (op = "mean") =>
        /\ result.status = "return"
        /\ IF Len(x) >= 1
           THEN IsFinite(result.value)
                /\ RMul(result.value, FromInt(Len(x))) = np_sum(x)
           ELSE IsNaN(result.value)

C9_Witness == op = "mean" /\ x = <<>> /\ result.status = "return" /\ IsNaN(result.value)

\* C10: for every non-empty sample, list or array, of odd or even length,
\* median_abs_dev returns the median of |x_i - median(x)| and raises nothing,
\* and mod_zscore's subtraction yields a sequence as long as x.
C10_MedianAbsDev ==
    /\ (op = "median_abs_dev" /\ x # <<>>) =>
           /\ result.status = "return"
           /\ result.value = MedianOf([i \in DOMAIN x |-> RAbs(RSub(x[i], MedianOf(x)))])
    /\ (op = "mod_zscore" /\ x # <<>>) =>
           /\ result.status = "return"
           /\ Len(result.value) = Len(x)

====
